---- MODULE Spec2Model ----
(***************************************************************************)
(* Storage layer of the token factory contract                             *)
(* (contracts/token-factory/src/storage.rs, types.rs).                     *)
(*                                                                         *)
(* The instance storage is a flat key -> value map.  It is modelled as the *)
(* record `store`, one field per DataKey variant.  An Option value is a    *)
(* sequence of length 0 (None) or 1 (Some).                                *)
(*                                                                         *)
(* Integer widths are scaled down: u32 is 0..U32Max and i128 is            *)
(* I128Min..I128Max.  `+=` on an integer panics on overflow (debug builds  *)
(* and builds with overflow-checks, the profile contracts are built with); *)
(* checked_sub returns None exactly when the i128 result is out of range.  *)
(*                                                                         *)
(* Every storage function is an operator from a store to an outcome        *)
(* [store, panicked]: the store holds the writes executed before the       *)
(* function returned or panicked, in statement order.  The store has no    *)
(* multi-key transaction, so a write made before a panic stays written.    *)
(***************************************************************************)
EXTENDS Integers, Sequences, FiniteSets, TLC

\* ---------------------------------------------------------------- bounds
U32Max == 3
I128Max == 3
MaxTokens == 2
MaxCalls == 4

I128Min == -(I128Max + 1)
U32 == 0..U32Max
I128 == I128Min..I128Max
Slots == 0..(MaxTokens - 1)

\* Addresses: A and B may be registered, D never is.
TokenAddrs == {"A", "B"}
Addrs == TokenAddrs \cup {"D"}
\* Amounts and deltas the callers pass (i128, no validation at this layer).
Amounts == {-1, 1, 2}
Deltas == {1, 2}
InitSupply == 2

\* ---------------------------------------------------------------- Option
None == <<>>
Some(x) == <<x>>

\* ---------------------------------------------------------------- types
TokenInfo(addr, supply, initial) ==
    [address |-> addr, creator |-> "creator", name |-> "name", symbol |-> "SYM",
     decimals |-> 7, total_supply |-> supply, initial_supply |-> initial,
     total_burned |-> 0, burn_count |-> 0, metadata_uri |-> None, created_at |-> 0]

BurnRecord(addr, from, amount, by, admin) ==
    [token_address |-> addr, from |-> from, amount |-> amount, burned_by |-> by,
     timestamp |-> 0, is_admin_burn |-> admin]

\* The records the callers pass to add_burn_record: self burns and admin burns.
BurnRecords ==
    {BurnRecord(a, "u1", 1, "u1", FALSE) : a \in Addrs}
    \cup {BurnRecord(a, "u1", 2, "admin", TRUE) : a \in Addrs}

VARIABLES
    store,          \* the instance storage
    last,           \* the last call, how it ended, whether its token was registered
    store0,         \* the store at the start (history)
    nAdd,           \* number of add_burn_record calls made (history)
    nIncOk,         \* number of increment_burn_count calls that returned on a registered token
    sumBurned,      \* per address: sum of the amounts of those calls
    numBurns,       \* per address: number of those calls
    log,            \* records of the burns completed as add_burn_record; increment_burn_count
    incFirstUsed,   \* a burn was made as increment_burn_count; add_burn_record
    ncalls,         \* number of calls made
    overflowed,     \* an increment_burn_count call panicked on a counter overflow (history)
    procs,          \* the calls in progress when the host interleaves their storage accesses
    lastSet         \* per configuration key: the last value a setter stored (history)

vars == <<store, last, store0, nAdd, nIncOk, sumBurned, numBurns, log, incFirstUsed, ncalls,
         overflowed, procs, lastSet>>
hist == <<store0, nAdd, nIncOk, sumBurned, numBurns, log, incFirstUsed>>

\* ---------------------------------------------------------------- outcomes
Ret(s) == [store |-> s, panicked |-> FALSE]
Panic(s) == [store |-> s, panicked |-> TRUE]
ResultOf(o) == IF o.panicked THEN "panic" ELSE "ok"

\* ---------------------------------------------------------------- reads
get_token_count(s) ==
    IF s.TokenCount = None THEN 0 ELSE s.TokenCount[1]

get_token_info(s, index) ==
    IF index \in DOMAIN s.Token THEN s.Token[index] ELSE None

get_global_burn_count(s) ==
    IF s.BurnCount = None THEN 0 ELSE s.BurnCount[1]

get_burn_record(s, index) ==
    IF index \in DOMAIN s.BurnRecord THEN s.BurnRecord[index] ELSE None

get_burn_record_count(s) == get_global_burn_count(s)

\* for i in 0..token_count: first slot that is written and whose address matches
RECURSIVE ScanInfo(_, _, _)
ScanInfo(s, token_address, i) ==
    IF i >= get_token_count(s) THEN None
    ELSE IF get_token_info(s, i) /= None /\ get_token_info(s, i)[1].address = token_address
         THEN Some(get_token_info(s, i)[1])
         ELSE ScanInfo(s, token_address, i + 1)

get_token_info_by_address(s, token_address) == ScanInfo(s, token_address, 0)

RECURSIVE ScanIndex(_, _, _)
ScanIndex(s, token_address, i) ==
    IF i >= get_token_count(s) THEN None
    ELSE IF get_token_info(s, i) /= None /\ get_token_info(s, i)[1].address = token_address
         THEN Some(i)
         ELSE ScanIndex(s, token_address, i + 1)

\* get_token_index that scans every slot, whatever TokenCount says.
get_token_index_ignores_count(s, token_address) ==
    LET hits == {i \in DOMAIN s.Token :
                    s.Token[i] /= None /\ s.Token[i][1].address = token_address}
    IN IF hits = {} THEN None ELSE Some(CHOOSE i \in hits : \A j \in hits : i <= j)

get_token_index(s, token_address) == ScanIndex(s, token_address, 0)

\* get_total_burned that keeps scanning after a match and returns the last one.
get_total_burned_last_match(s, token_address) ==
    LET hits == {i \in 0..(get_token_count(s) - 1) :
                    get_token_info(s, i) /= None
                    /\ get_token_info(s, i)[1].address = token_address}
    IN IF hits = {} THEN 0
       ELSE get_token_info(s, CHOOSE i \in hits : \A j \in hits : i >= j)[1].total_burned

get_total_burned(s, token_address) ==
    IF get_token_info_by_address(s, token_address) /= None
    THEN get_token_info_by_address(s, token_address)[1].total_burned
    ELSE 0

get_burn_count(s, token_address) ==
    IF get_token_info_by_address(s, token_address) /= None
    THEN get_token_info_by_address(s, token_address)[1].burn_count
    ELSE 0

\* env.storage().instance().set(&DataKey::Token(idx), &token_info)
SetToken(s, idx, token_info) == [s EXCEPT !.Token[idx] = Some(token_info)]

\* ---------------------------------------------------------------- writes
\* increment_burn_count that forgets the global counter.
increment_burn_count_no_global(s, token_address, amount) ==
    LET found == get_token_info_by_address(s, token_address) IN
    IF found = None THEN Ret(s)
    ELSE
      LET token_info == found[1] IN
      IF token_info.burn_count + 1 > U32Max THEN Panic(s)
      ELSE IF token_info.total_burned + amount \notin I128 THEN Panic(s)
      ELSE
        LET updated == [token_info EXCEPT !.burn_count = @ + 1,
                                          !.total_burned = @ + amount]
            index == get_token_index(s, token_address)
        IN Ret(IF index /= None THEN SetToken(s, index[1], updated) ELSE s)

\* increment_burn_count that counts a burn of an unknown token in the global counter.
increment_burn_count_counts_unknown(s, token_address, amount) ==
    LET found == get_token_info_by_address(s, token_address) IN
    IF found = None
    THEN (IF get_global_burn_count(s) + 1 > U32Max THEN Panic(s)
          ELSE Ret([s EXCEPT !.BurnCount = Some(get_global_burn_count(s) + 1)]))
    ELSE
      LET token_info == found[1] IN
      IF token_info.burn_count + 1 > U32Max THEN Panic(s)
      ELSE IF token_info.total_burned + amount \notin I128 THEN Panic(s)
      ELSE
        LET updated == [token_info EXCEPT !.burn_count = @ + 1,
                                          !.total_burned = @ + amount]
            index == get_token_index(s, token_address)
            s1 == IF index /= None THEN SetToken(s, index[1], updated) ELSE s
        IN IF get_global_burn_count(s1) + 1 > U32Max THEN Panic(s1)
           ELSE Ret([s1 EXCEPT !.BurnCount = Some(get_global_burn_count(s1) + 1)])

increment_burn_count(s, token_address, amount) ==
    LET found == get_token_info_by_address(s, token_address) IN
    IF found = None THEN Ret(s)
    ELSE
      LET token_info == found[1] IN
      IF token_info.burn_count + 1 > U32Max THEN Panic(s)
      ELSE IF token_info.total_burned + amount \notin I128 THEN Panic(s)
      ELSE
        LET updated == [token_info EXCEPT !.burn_count = @ + 1,
                                          !.total_burned = @ + amount]
            index == get_token_index(s, token_address)
            s1 == IF index /= None THEN SetToken(s, index[1], updated) ELSE s
        IN IF get_global_burn_count(s1) + 1 > U32Max THEN Panic(s1)
           ELSE Ret([s1 EXCEPT !.BurnCount = Some(get_global_burn_count(s1) + 1)])

\* add_burn_record that writes one slot too low (index = count - 1).
add_burn_record_off_by_one(s, record) ==
    LET index == get_global_burn_count(s) - 1 IN
    Ret(IF index \in DOMAIN s.BurnRecord
        THEN [s EXCEPT !.BurnRecord[index] = Some(record)]
        ELSE s)

add_burn_record(s, record) ==
    LET index == get_global_burn_count(s) IN
    Ret([s EXCEPT !.BurnRecord[index] = Some(record)])

\* update_token_supply that writes the record back at slot 0, whatever slot it was read from.
update_token_supply_slot_0(s, token_address, delta) ==
    LET found == get_token_info_by_address(s, token_address) IN
    IF found = None THEN Ret(s)
    ELSE
      LET token_info == found[1] IN
      IF token_info.total_supply - delta \notin I128 THEN Panic(s)
      ELSE Ret(SetToken(s, 0, [token_info EXCEPT !.total_supply = @ - delta]))

update_token_supply(s, token_address, delta) ==
    LET found == get_token_info_by_address(s, token_address) IN
    IF found = None THEN Ret(s)
    ELSE
      LET token_info == found[1] IN
      IF token_info.total_supply - delta \notin I128 THEN Panic(s)
      ELSE
        LET updated == [token_info EXCEPT !.total_supply = @ - delta]
            index == get_token_index(s, token_address)
        IN Ret(IF index /= None THEN SetToken(s, index[1], updated) ELSE s)

\* ---------------------------------------------------------------- burns (callers)
\* A burn as the callers of this layer make it.  A panic ends the unit: the calls after
\* it are not made.
record_burn(s, record) ==
    LET o == add_burn_record(s, record) IN
    IF o.panicked THEN o
    ELSE increment_burn_count(o.store, record.token_address, record.amount)

\* The same two calls, counter first.
record_burn_inc_first(s, record) ==
    LET o == increment_burn_count(s, record.token_address, record.amount) IN
    IF o.panicked THEN o
    ELSE add_burn_record(o.store, record)

\* The token update of a burn together with the supply update, same amount.
burn_with_supply(s, token_address, amount) ==
    LET o == increment_burn_count(s, token_address, amount) IN
    IF o.panicked THEN o
    ELSE update_token_supply(o.store, token_address, amount)

\* ---------------------------------------------------------------- initial stores
\* The registry is filled by the issuance workflow: slots dense from 0, addresses
\* distinct, total_supply = initial_supply, burn fields 0.  The ledger is empty.
RegistrySeqs ==
    {q \in UNION {[1..n -> TokenAddrs] : n \in 0..MaxTokens} :
        \A i, j \in DOMAIN q : i /= j => q[i] /= q[j]}

InitStores ==
    {[TokenCount |-> IF Len(q) = 0 THEN None ELSE Some(Len(q)),
      Token |-> [i \in Slots |->
                   IF i < Len(q) THEN Some(TokenInfo(q[i + 1], InitSupply, InitSupply))
                   ELSE None],
      BurnCount |-> None,
      BurnRecord |-> [i \in U32 |-> None],
      Admin |-> Some("admin"), Treasury |-> Some("treasury"),
      BaseFee |-> Some(1), MetadataFee |-> Some(1)] :
        q \in RegistrySeqs}

Registered(s, a) == get_token_info_by_address(s, a) /= None
TokenOf(s, a) == get_token_info_by_address(s, a)[1]

\* What the caller observes of a call: which call, whether it returned or panicked,
\* and whether its address named a registered token when it was made.
Last(op, o, a) == [op |-> op, result |-> ResultOf(o), found |-> Registered(store, a)]

\* The processes of the interleaved execution, none of them in a call.
Procs == {"p1", "p2"}
Idle == [pc |-> "idle", token_address |-> "D", amount |-> 1, token_info |-> None,
         global_count |-> 0, result |-> "ok", raced |-> FALSE]

ConfigOf(s) ==
    [Admin |-> s.Admin, Treasury |-> s.Treasury, BaseFee |-> s.BaseFee,
     MetadataFee |-> s.MetadataFee]

\* The history variables at the start, whatever the initial store.
InitHist ==
    /\ store0 = store
    /\ last = [op |-> "init", result |-> "ok", found |-> FALSE]
    /\ nAdd = 0
    /\ nIncOk = 0
    /\ sumBurned = [a \in Addrs |-> 0]
    /\ numBurns = [a \in Addrs |-> 0]
    /\ log = <<>>
    /\ incFirstUsed = FALSE
    /\ ncalls = 0
    /\ overflowed = FALSE
    /\ procs = [p \in Procs |-> Idle]
    /\ lastSet = ConfigOf(store)

Init ==
    /\ store \in InitStores
    /\ InitHist

\* ---------------------------------------------------------------- calls of the API
\* increment_burn_count(a, amount) panics in s on burn_count + 1 or on the global
\* count + 1 (it panics, and not on total_burned + amount).
CounterOverflow(s, a, amount) ==
    /\ increment_burn_count(s, a, amount).panicked
    /\ TokenOf(s, a).total_burned + amount \in I128

IncrementBurnCount(a, amount) ==
    LET o == increment_burn_count(store, a, amount)
        counted == ~o.panicked /\ Registered(store, a)
    IN /\ ncalls < MaxCalls
       /\ ncalls' = ncalls + 1
       /\ store' = o.store
       /\ last' = Last("increment_burn_count", o, a)
       /\ nIncOk' = IF counted THEN nIncOk + 1 ELSE nIncOk
       /\ sumBurned' = IF counted THEN [sumBurned EXCEPT ![a] = @ + amount] ELSE sumBurned
       /\ numBurns' = IF counted THEN [numBurns EXCEPT ![a] = @ + 1] ELSE numBurns
       /\ overflowed' = (overflowed \/ CounterOverflow(store, a, amount))
       /\ UNCHANGED <<store0, nAdd, log, incFirstUsed, procs, lastSet>>

AddBurnRecord(r) ==
    LET o == add_burn_record(store, r) IN
    /\ ncalls < MaxCalls
    /\ ncalls' = ncalls + 1
    /\ store' = o.store
    /\ last' = Last("add_burn_record", o, r.token_address)
    /\ nAdd' = nAdd + 1
    /\ UNCHANGED <<store0, nIncOk, sumBurned, numBurns, log, incFirstUsed>>
    /\ UNCHANGED <<overflowed, procs, lastSet>>

UpdateTokenSupply(a, delta) ==
    LET o == update_token_supply(store, a, delta) IN
    /\ ncalls < MaxCalls
    /\ ncalls' = ncalls + 1
    /\ store' = o.store
    /\ last' = Last("update_token_supply", o, a)
    /\ UNCHANGED <<hist, overflowed, procs, lastSet>>

Next ==
    \/ \E a \in Addrs, amount \in Amounts : IncrementBurnCount(a, amount)
    \/ \E r \in BurnRecords : AddBurnRecord(r)
    \/ \E a \in Addrs, delta \in Deltas : UpdateTokenSupply(a, delta)

Spec == Init /\ [][Next]_vars

\* ---------------------------------------------------------------- SpecBurn
\* Every step is one whole burn: the add_burn_record and increment_burn_count calls
\* for one record, in one order or the other.
RecordBurn(r) ==
    LET o == record_burn(store, r) IN
    /\ ncalls < MaxCalls
    /\ ncalls' = ncalls + 1
    /\ store' = o.store
    /\ last' = Last("record_burn", o, r.token_address)
    /\ log' = IF ~o.panicked /\ Registered(store, r.token_address)
              THEN Append(log, r) ELSE log
    /\ UNCHANGED <<store0, nAdd, nIncOk, sumBurned, numBurns, incFirstUsed>>
    /\ UNCHANGED <<overflowed, procs, lastSet>>

RecordBurnIncFirst(r) ==
    LET o == record_burn_inc_first(store, r) IN
    /\ ncalls < MaxCalls
    /\ ncalls' = ncalls + 1
    /\ store' = o.store
    /\ last' = Last("record_burn_inc_first", o, r.token_address)
    /\ incFirstUsed' = TRUE
    /\ UNCHANGED <<store0, nAdd, nIncOk, sumBurned, numBurns, log>>
    /\ UNCHANGED <<overflowed, procs, lastSet>>

NextBurn ==
    \/ \E r \in BurnRecords : RecordBurn(r)
    \/ \E r \in BurnRecords : RecordBurnIncFirst(r)

SpecBurn == Init /\ [][NextBurn]_vars

\* ---------------------------------------------------------------- SpecSupply
\* Every step is one burn made as increment_burn_count with update_token_supply.
BurnWithSupply(a, amount) ==
    LET o == burn_with_supply(store, a, amount) IN
    /\ ncalls < MaxCalls
    /\ ncalls' = ncalls + 1
    /\ store' = o.store
    /\ last' = Last("burn_with_supply", o, a)
    /\ UNCHANGED <<hist, overflowed, procs, lastSet>>

NextSupply == \E a \in Addrs, amount \in Amounts : BurnWithSupply(a, amount)

SpecSupply == Init /\ [][NextSupply]_vars

\* ---------------------------------------------------------------- SpecLookup
\* The lookups and the calls that use them, started from any store the functions can
\* be handed: TokenCount unset or any number, every slot unwritten or holding a
\* record of any address (addresses repeated, gaps, records at or above TokenCount).
\* The record in slot i starts with total_burned = burn_count = i.
AnyStores ==
    {[TokenCount |-> tc,
      Token |-> [i \in Slots |->
                   IF f[i] = None THEN None
                   ELSE Some([TokenInfo(f[i][1], InitSupply, InitSupply)
                                EXCEPT !.total_burned = i, !.burn_count = i])],
      BurnCount |-> None,
      BurnRecord |-> [i \in U32 |-> None],
      Admin |-> Some("admin"), Treasury |-> Some("treasury"),
      BaseFee |-> Some(1), MetadataFee |-> Some(1)] :
        tc \in {None} \cup {Some(n) : n \in 0..MaxTokens},
        f \in [Slots -> {None} \cup {Some(a) : a \in TokenAddrs}]}

InitLookup ==
    /\ store \in AnyStores
    /\ InitHist

\* get_total_burned, get_burn_count, get_token_count, get_global_burn_count: no write.
ReadBurnStats ==
    /\ last.op /= "read"
    /\ last' = [op |-> "read", result |-> "ok", found |-> FALSE]
    /\ UNCHANGED <<store, hist, ncalls, overflowed, procs, lastSet>>

LookupAmounts == {1}

NextLookup ==
    \/ \E a \in Addrs, amount \in LookupAmounts : IncrementBurnCount(a, amount)
    \/ \E a \in Addrs, delta \in LookupAmounts : UpdateTokenSupply(a, delta)
    \/ ReadBurnStats

SpecLookup == InitLookup /\ [][NextLookup]_vars

\* ---------------------------------------------------------------- SpecInterleave
\* Two increment_burn_count calls whose storage accesses the host may interleave.
\* Each call is the steps of the function in order, each step one group of storage
\* accesses; a call is raced when a step of the other call falls between its steps.

\* inc_write_back that forgets burn_count += 1.
inc_write_back_no_count(s, token_address, amount, token_info) ==
    IF token_info.total_burned + amount \notin I128 THEN Panic(s)
    ELSE
      LET updated == [token_info EXCEPT !.total_burned = @ + amount]
          index == get_token_index(s, token_address)
      IN Ret(IF index /= None THEN SetToken(s, index[1], updated) ELSE s)

\* token_info.burn_count += 1; token_info.total_burned += amount; write back at the
\* slot get_token_index finds now
inc_write_back(s, token_address, amount, token_info) ==
    IF token_info.burn_count + 1 > U32Max THEN Panic(s)
    ELSE IF token_info.total_burned + amount \notin I128 THEN Panic(s)
    ELSE
      LET updated == [token_info EXCEPT !.burn_count = @ + 1,
                                        !.total_burned = @ + amount]
          index == get_token_index(s, token_address)
      IN Ret(IF index /= None THEN SetToken(s, index[1], updated) ELSE s)

\* env.storage().instance().set(&DataKey::BurnCount, &global_count)
inc_write_global(s, global_count) == [s EXCEPT !.BurnCount = Some(global_count)]

InCall(q) == procs[q].pc \in {"write_back", "read_global", "write_global"}

\* procs after a step of p that sets the fields in `upd`; the step races every call
\* that is between two of its own steps.
Stepped(p, upd) ==
    LET racing == \E q \in Procs \ {p} : InCall(q) IN
    [q \in Procs |->
        IF q = p THEN [f \in DOMAIN procs[p] |->
                          IF f \in DOMAIN upd THEN upd[f]
                          ELSE IF f = "raced" THEN procs[p].raced \/ racing
                          ELSE procs[p][f]]
        ELSE IF InCall(q) THEN [procs[q] EXCEPT !.raced = TRUE]
        ELSE procs[q]]

Begin(p, a, amount) ==
    /\ procs[p].pc = "idle"
    /\ procs' = [procs EXCEPT ![p] = [@ EXCEPT !.pc = "lookup", !.token_address = a,
                                                !.amount = amount]]
    /\ UNCHANGED <<store, last, hist, ncalls, overflowed, lastSet>>

\* if let Some(mut token_info) = get_token_info_by_address(env, token_address)
StepLookup(p) ==
    LET found == get_token_info_by_address(store, procs[p].token_address) IN
    /\ procs[p].pc = "lookup"
    /\ procs' = Stepped(p, [pc |-> IF found = None THEN "done" ELSE "write_back",
                            token_info |-> found])
    /\ UNCHANGED <<store, last, hist, ncalls, overflowed, lastSet>>

StepWriteBack(p) ==
    LET o == inc_write_back(store, procs[p].token_address, procs[p].amount,
                            procs[p].token_info[1]) IN
    /\ procs[p].pc = "write_back"
    /\ store' = o.store
    /\ procs' = Stepped(p, [pc |-> IF o.panicked THEN "done" ELSE "read_global",
                            result |-> ResultOf(o)])
    /\ UNCHANGED <<last, hist, ncalls, overflowed, lastSet>>

\* let global_count = get_global_burn_count(env) + 1
StepReadGlobal(p) ==
    LET overflow == get_global_burn_count(store) + 1 > U32Max IN
    /\ procs[p].pc = "read_global"
    /\ procs' = Stepped(p, [pc |-> IF overflow THEN "done" ELSE "write_global",
                            result |-> IF overflow THEN "panic" ELSE "ok",
                            global_count |-> IF overflow THEN 0
                                             ELSE get_global_burn_count(store) + 1])
    /\ UNCHANGED <<store, last, hist, ncalls, overflowed, lastSet>>

StepWriteGlobal(p) ==
    /\ procs[p].pc = "write_global"
    /\ store' = inc_write_global(store, procs[p].global_count)
    /\ procs' = Stepped(p, [pc |-> "done"])
    /\ UNCHANGED <<last, hist, ncalls, overflowed, lastSet>>

InterleaveAmounts == {1, 2}

NextInterleave ==
    \/ \E p \in Procs, a \in Addrs, amount \in InterleaveAmounts : Begin(p, a, amount)
    \/ \E p \in Procs : StepLookup(p)
    \/ \E p \in Procs : StepWriteBack(p)
    \/ \E p \in Procs : StepReadGlobal(p)
    \/ \E p \in Procs : StepWriteGlobal(p)

SpecInterleave == Init /\ [][NextInterleave]_vars

\* ---------------------------------------------------------------- SpecConfig
\* The configuration keys, from a store where none of them has been set.

\* Option::unwrap(): the value, or a panic
Unwrap(o) == [panicked |-> o = None, value |-> o]

\* get_base_fee that falls back to 0 while the key is unset.
get_base_fee_or_default(s) ==
    [panicked |-> FALSE, value |-> IF s.BaseFee = None THEN Some(0) ELSE s.BaseFee]

get_admin(s) == Unwrap(s.Admin)
set_admin(s, admin) == [s EXCEPT !.Admin = Some(admin)]
has_admin(s) == s.Admin /= None
get_treasury(s) == Unwrap(s.Treasury)
set_treasury(s, treasury) == [s EXCEPT !.Treasury = Some(treasury)]
get_base_fee(s) == Unwrap(s.BaseFee)
set_base_fee(s, fee) == [s EXCEPT !.BaseFee = Some(fee)]
get_metadata_fee(s) == Unwrap(s.MetadataFee)
set_metadata_fee(s, fee) == [s EXCEPT !.MetadataFee = Some(fee)]

\* the four getters in field order; the first that panics ends the call
get_factory_state(s) ==
    IF \/ get_admin(s).panicked \/ get_treasury(s).panicked
       \/ get_base_fee(s).panicked \/ get_metadata_fee(s).panicked
    THEN Unwrap(None)
    ELSE Unwrap(Some([admin |-> get_admin(s).value[1],
                      treasury |-> get_treasury(s).value[1],
                      base_fee |-> get_base_fee(s).value[1],
                      metadata_fee |-> get_metadata_fee(s).value[1]]))

Identities == {"admin", "treasury"}
Fees == {0, 1}

InitConfig ==
    /\ store \in {[s EXCEPT !.Admin = None, !.Treasury = None, !.BaseFee = None,
                            !.MetadataFee = None] : s \in InitStores}
    /\ InitHist

SetAdmin(admin) ==
    /\ store' = set_admin(store, admin)
    /\ lastSet' = [lastSet EXCEPT !.Admin = Some(admin)]
    /\ UNCHANGED <<last, hist, ncalls, overflowed, procs>>

SetTreasury(treasury) ==
    /\ store' = set_treasury(store, treasury)
    /\ lastSet' = [lastSet EXCEPT !.Treasury = Some(treasury)]
    /\ UNCHANGED <<last, hist, ncalls, overflowed, procs>>

SetBaseFee(fee) ==
    /\ store' = set_base_fee(store, fee)
    /\ lastSet' = [lastSet EXCEPT !.BaseFee = Some(fee)]
    /\ UNCHANGED <<last, hist, ncalls, overflowed, procs>>

SetMetadataFee(fee) ==
    /\ store' = set_metadata_fee(store, fee)
    /\ lastSet' = [lastSet EXCEPT !.MetadataFee = Some(fee)]
    /\ UNCHANGED <<last, hist, ncalls, overflowed, procs>>

NextConfig ==
    \/ \E admin \in Identities : SetAdmin(admin)
    \/ \E treasury \in Identities : SetTreasury(treasury)
    \/ \E fee \in Fees : SetBaseFee(fee)
    \/ \E fee \in Fees : SetMetadataFee(fee)
    \/ \E a \in Addrs, amount \in LookupAmounts : IncrementBurnCount(a, amount)
    \/ \E a \in Addrs, delta \in LookupAmounts : UpdateTokenSupply(a, delta)

SpecConfig == InitConfig /\ [][NextConfig]_vars

\* ================================================================ claims (Spec)

\* C1: for every registered token, total_burned is its initial total_burned plus the
\* sum of the amounts of the increment_burn_count calls made against its address, and
\* burn_count is its initial burn_count plus the number of those calls.
C1_BurnTotals ==
    \A a \in Addrs : Registered(store, a) =>
        /\ get_total_burned(store, a) = get_total_burned(store0, a) + sumBurned[a]
        /\ get_burn_count(store, a) = get_burn_count(store0, a) + numBurns[a]

\* C2: update_token_supply on a registered token with delta > total_supply panics and
\* leaves the store as it was.
C2_UnderflowAborts ==
    [][\A a \in Addrs, delta \in Deltas :
          (/\ Registered(store, a)
           /\ delta > TokenOf(store, a).total_supply
           /\ UpdateTokenSupply(a, delta))
          => (last'.result = "panic" /\ store' = store)]_vars

C8_RecordsImmutable ==
    [][\A i \in U32 :
          get_burn_record(store, i) /= None
          => get_burn_record(store', i) = get_burn_record(store, i)]_vars

\* C8 (amended): a burn record at an index below the global burn count is returned
\* unchanged after every later call.
C8_CountedRecordsImmutable ==
    [][\A i \in U32 :
          (i < get_global_burn_count(store) /\ get_burn_record(store, i) /= None)
          => get_burn_record(store', i) = get_burn_record(store, i)]_vars

\* a counted record at index 0, and a later add_burn_record has written above it
C8_Witness ==
    /\ get_global_burn_count(store) >= 1
    /\ get_burn_record(store, 0) /= None
    /\ get_burn_record(store, get_global_burn_count(store)) /= None
    /\ last.op = "add_burn_record"

\* C9: no call lowers a registered token's total_burned or burn_count, nor the global
\* burn count.
C9_Monotonic ==
    [][/\ \A a \in Addrs : Registered(store, a) =>
            /\ get_total_burned(store', a) >= get_total_burned(store, a)
            /\ get_burn_count(store', a) >= get_burn_count(store, a)
       /\ get_global_burn_count(store') >= get_global_burn_count(store)]_vars

\* C10: an increment_burn_count call that panics leaves every Token(slot) entry and
\* BurnCount as they were before the call.
C10_AbortWritesNothing ==
    [][(last'.op = "increment_burn_count" /\ last'.result = "panic" /\ ncalls' /= ncalls)
          => (store'.Token = store.Token /\ store'.BurnCount = store.BurnCount)]_vars

\* ================================================================ claims (SpecBurn)
\* get_burn_record(i) is a record for every i below the global burn count and absent
\* for every i at or above it
Dense(s) ==
    \A i \in U32 :
        (get_burn_record(s, i) /= None) <=> (i < get_global_burn_count(s))

BurnDone(ops) == last.op \in ops /\ last.result = "ok" /\ last.found

C6_UnknownTokenNoRecord ==
    [][(last'.op = "record_burn" /\ ~last'.found /\ ncalls' /= ncalls)
          => /\ get_global_burn_count(store') = get_global_burn_count(store)
             /\ \A i \in U32 : get_burn_record(store', i) = get_burn_record(store, i)]_vars

\* ================================================================ claims (SpecSupply)
\* C7: after every burn of a token (registered with total_supply = initial_supply and
\* total_burned = 0) that returned, total_supply = initial_supply - total_burned.
C7_Reconciled ==
    [][\A a \in Addrs, amount \in Amounts :
          (/\ Registered(store, a)
           /\ TokenOf(store0, a).total_supply = TokenOf(store0, a).initial_supply
           /\ TokenOf(store0, a).total_burned = 0
           /\ BurnWithSupply(a, amount)
           /\ last'.result = "ok")
          => TokenOf(store', a).total_supply
               = TokenOf(store', a).initial_supply - TokenOf(store', a).total_burned]_vars

\* ================================================================ claims (Spec), continued
\* C11: increment_burn_count and update_token_supply called with an address that
\* matches no registered token return without panicking and leave every key of the
\* store as it was.
C11_UnknownTokenNoOp ==
    [][(/\ last'.op \in {"increment_burn_count", "update_token_supply"}
        /\ ~last'.found
        /\ ncalls' /= ncalls)
          => (last'.result = "ok" /\ store' = store)]_vars

\* such a call made on a store that earlier burns have changed
C11_Witness ==
    /\ last.op \in {"increment_burn_count", "update_token_supply"}
    /\ ~last.found
    /\ last.result = "ok"
    /\ get_global_burn_count(store) >= 1
    /\ get_token_count(store) >= 1

\* TokenCount and every slot whose record has another address are unchanged; the
\* record of address a changes in the given fields only
FrameOf(a, fields) ==
    /\ store'.TokenCount = store.TokenCount
    /\ \A i \in Slots :
         IF store.Token[i] /= None /\ store.Token[i][1].address = a
         THEN /\ store'.Token[i] /= None
              /\ \A f \in (DOMAIN store.Token[i][1]) \ fields :
                    store'.Token[i][1][f] = store.Token[i][1][f]
         ELSE store'.Token[i] = store.Token[i]

\* C12: increment_burn_count(a, ..) and update_token_supply(a, ..), returning or
\* panicking, leave TokenCount and every Token(slot) of another address unchanged; in
\* the record of a the first changes burn_count and total_burned only, the second
\* total_supply only.
C12_TokenFrame ==
    [][/\ \A a \in Addrs, amount \in Amounts :
            IncrementBurnCount(a, amount) => FrameOf(a, {"burn_count", "total_burned"})
       /\ \A a \in Addrs, delta \in Deltas :
            UpdateTokenSupply(a, delta) => FrameOf(a, {"total_supply"})]_vars

\* both calls have changed the token in slot 1 of a registry of two
C12_Witness ==
    /\ get_token_count(store) = 2
    /\ last.op = "update_token_supply" /\ last.found /\ last.result = "ok"
    /\ store.Token[1][1].total_supply /= store0.Token[1][1].total_supply
    /\ store.Token[1][1].burn_count >= 1
    /\ store.Token[0] = store0.Token[0]

RECURSIVE SumBurnCounts(_, _)
SumBurnCounts(s, i) ==
    IF i >= get_token_count(s) THEN 0
    ELSE (IF get_token_info(s, i) = None THEN 0 ELSE get_token_info(s, i)[1].burn_count)
         + SumBurnCounts(s, i + 1)

\* C16: as long as no counter has overflowed, the global burn count is the sum of
\* burn_count over the registered tokens; an increment_burn_count call that returns
\* on a registered token raises that token's burn_count and the global count by 1.
C16_CountersAgree ==
    /\ [](~overflowed => get_global_burn_count(store) = SumBurnCounts(store, 0))
    /\ [][\A a \in Addrs, amount \in Amounts :
             (/\ Registered(store, a)
              /\ IncrementBurnCount(a, amount)
              /\ last'.result = "ok")
             => /\ get_global_burn_count(store') = get_global_burn_count(store) + 1
                /\ get_burn_count(store', a) = get_burn_count(store, a) + 1]_vars

C16_Witness ==
    /\ ~overflowed
    /\ get_token_count(store) = 2
    /\ get_global_burn_count(store) = 3
    /\ \A a \in TokenAddrs : get_burn_count(store, a) >= 1
    /\ nAdd >= 1

\* C17: right after add_burn_record(r) in a state whose global burn count is n,
\* get_burn_record(n) is r and get_burn_record(j) is unchanged for every j /= n.
C17_RecordRoundTrip ==
    [][\A r \in BurnRecords :
          AddBurnRecord(r)
          => /\ get_burn_record(store', get_global_burn_count(store)) = Some(r)
             /\ \A j \in U32 \ {get_global_burn_count(store)} :
                   get_burn_record(store', j) = get_burn_record(store, j)]_vars

C17_Witness ==
    /\ last.op = "add_burn_record"
    /\ get_global_burn_count(store) = 2
    /\ get_burn_record(store, 2) /= None
    /\ get_burn_record(store, 0) = None

\* ================================================================ claims (SpecLookup)
\* the slots below TokenCount that are written and hold a record of address a
Matches(s, a) ==
    {i \in Slots :
        /\ s.TokenCount /= None
        /\ i < s.TokenCount[1]
        /\ s.Token[i] /= None
        /\ s.Token[i][1].address = a}

Lowest(S) == CHOOSE i \in S : \A j \in S : i <= j

\* C13: get_total_burned(a) and get_burn_count(a) are 0 when no slot below TokenCount
\* holds a record of address a, and else the fields of the record in the lowest such
\* slot; get_token_count and get_global_burn_count are 0 while their key is unset; the
\* reads leave the store as it was.
C13_Reads ==
    /\ [](/\ \A a \in Addrs :
               IF Matches(store, a) = {}
               THEN get_total_burned(store, a) = 0 /\ get_burn_count(store, a) = 0
               ELSE /\ get_total_burned(store, a)
                         = store.Token[Lowest(Matches(store, a))][1].total_burned
                    /\ get_burn_count(store, a)
                         = store.Token[Lowest(Matches(store, a))][1].burn_count
          /\ (store.TokenCount = None => get_token_count(store) = 0)
          /\ (store.BurnCount = None => get_global_burn_count(store) = 0))
    /\ [][last'.op = "read" => store' = store]_vars

\* a read of a store where two slots hold address A with different totals, and of one
\* whose TokenCount is unset over a written slot
C13_Witness ==
    /\ last.op = "read"
    /\ \/ /\ Cardinality(Matches(store, "A")) = 2
          /\ store.Token[0][1].total_burned /= store.Token[1][1].total_burned
       \/ /\ store.TokenCount = None
          /\ store.Token[0] /= None

\* C15: get_token_info_by_address(a) is the record in the lowest slot below TokenCount
\* that is written and holds address a, get_token_index(a) is that slot, and both are
\* absent together; increment_burn_count and update_token_supply write that slot and
\* no other.
C15_FirstMatch ==
    /\ [](\A a \in Addrs :
            IF Matches(store, a) = {}
            THEN get_token_info_by_address(store, a) = None
                 /\ get_token_index(store, a) = None
            ELSE /\ get_token_info_by_address(store, a)
                      = store.Token[Lowest(Matches(store, a))]
                 /\ get_token_index(store, a) = Some(Lowest(Matches(store, a))))
    /\ [][\A a \in Addrs, amount \in LookupAmounts :
             (IncrementBurnCount(a, amount) \/ UpdateTokenSupply(a, amount))
             => \A i \in Slots :
                   (Matches(store, a) = {} \/ i /= Lowest(Matches(store, a)))
                   => store'.Token[i] = store.Token[i]]_vars

\* a call has changed slot 1, the lowest match, while slot 0 is unwritten or holds
\* another address; or slot 0 of two slots that hold the same address
C15_Witness ==
    /\ last.op \in {"increment_burn_count", "update_token_supply"}
    /\ last.found /\ last.result = "ok"
    /\ store.Token /= store0.Token
    /\ \/ store.Token[1] /= store0.Token[1]
       \/ /\ store.Token[0] /= None /\ store.Token[1] /= None
          /\ store.Token[0][1].address = store.Token[1][1].address

\* ================================================================ claims (SpecInterleave)
AllDone == \A p \in Procs : procs[p].pc = "done"

\* the calls on address a that went through to the end
Burned(a) ==
    {p \in Procs : /\ procs[p].token_address = a
                   /\ procs[p].token_info /= None
                   /\ procs[p].result = "ok"}

RECURSIVE SumAmounts(_)
SumAmounts(P) ==
    IF P = {} THEN 0
    ELSE LET p == CHOOSE q \in P : TRUE IN procs[p].amount + SumAmounts(P \ {p})

\* C14: when neither call is raced (each executes atomically with respect to the
\* store), every token reflects every call made on it and the global burn count
\* counts them all: no update is lost.
C14_AtomicNoLostUpdate ==
    (AllDone /\ \A p \in Procs : ~procs[p].raced) =>
        /\ \A a \in TokenAddrs : Registered(store, a) =>
              /\ get_burn_count(store, a) = Cardinality(Burned(a))
              /\ get_total_burned(store, a) = SumAmounts(Burned(a))
        /\ get_global_burn_count(store)
              = Cardinality({p \in Procs : procs[p].token_info /= None
                                           /\ procs[p].result = "ok"})

\* the atomic case: two calls on the same token, neither raced, both counted
C14_AtomicBothCounted ==
    /\ AllDone
    /\ \A p \in Procs : ~procs[p].raced /\ procs[p].result = "ok"
    /\ \E a \in TokenAddrs : Cardinality(Burned(a)) = 2 /\ get_burn_count(store, a) = 2

\* C14, the hazard: interleaved, two calls on the same token both go through to the
\* end and the token reflects one of them only, while BurnCount may be 2.
C14_LostUpdateReachable ==
    /\ AllDone
    /\ \E a \in TokenAddrs :
          /\ Cardinality(Burned(a)) = 2
          /\ get_burn_count(store, a) = 1
          /\ get_total_burned(store, a) \in {procs[p].amount : p \in Procs}
    /\ get_global_burn_count(store) = 2
    /\ \E p \in Procs : procs[p].raced

\* ================================================================ claims (SpecConfig)
ConfigKeys == {"Admin", "Treasury", "BaseFee", "MetadataFee"}

\* C18: each configuration getter aborts while its key has never been set and
\* returns the last value set afterwards, in every later state; has_admin is false
\* exactly while Admin is unset; get_factory_state aborts unless all four keys are
\* set, and then returns the four last values.
C18_ConfigReads ==
    /\ get_admin(store) = Unwrap(lastSet.Admin)
    /\ get_treasury(store) = Unwrap(lastSet.Treasury)
    /\ get_base_fee(store) = Unwrap(lastSet.BaseFee)
    /\ get_metadata_fee(store) = Unwrap(lastSet.MetadataFee)
    /\ has_admin(store) <=> lastSet.Admin /= None
    /\ get_factory_state(store).panicked <=> \E k \in ConfigKeys : lastSet[k] = None
    /\ (\A k \in ConfigKeys : lastSet[k] /= None) =>
          get_factory_state(store).value
              = Some([admin |-> lastSet.Admin[1], treasury |-> lastSet.Treasury[1],
                      base_fee |-> lastSet.BaseFee[1],
                      metadata_fee |-> lastSet.MetadataFee[1]])

\* all four keys set, a fee set to 0, and burns recorded since
C18_Witness ==
    /\ \A k \in ConfigKeys : lastSet[k] /= None
    /\ ~get_factory_state(store).panicked
    /\ get_base_fee(store).value = Some(0)
    /\ get_global_burn_count(store) > 0

====
